---- MODULE Spec2Model ----
(***************************************************************************)
(* Forecasting and metrics engine of the financial forecasting dashboard:  *)
(* ModelTrainer (app/model_utils.py) and the routes of app/app.py that     *)
(* drive it.                                                               *)
(*                                                                         *)
(* Numbers.  Python floats are modelled as exact rationals <<n, d>> in     *)
(* lowest terms with d > 0; d = 0 stands for the non-finite floats:        *)
(* <<1, 0>> is +inf, <<-1, 0>> is -inf and <<0, 0>> is NaN.                *)
(***************************************************************************)
EXTENDS Integers, Sequences, FiniteSets, TLC

----------------------------------------------------------------------------
(* Float arithmetic (IEEE rules for inf and NaN, exact otherwise).         *)

IAbs(k) == IF k < 0 THEN -k ELSE k

ISign(k) == IF k > 0 THEN 1 ELSE IF k < 0 THEN -1 ELSE 0

RECURSIVE GCD(_, _)
GCD(a, b) == IF b = 0 THEN a ELSE GCD(b, a % b)

Rat(n, d) ==
    IF d = 0 THEN <<ISign(n), 0>>
    ELSE LET g == GCD(IAbs(n), IAbs(d))
             s == ISign(d)
         IN  <<(s * n) \div g, (s * d) \div g>>

RInt(k) == <<k, 1>>

NaN == <<0, 0>>

PosInf == <<1, 0>>

IsFinite(x) == x[2] # 0

IsNaN(x) == x = NaN

RNeg(x) == <<-x[1], x[2]>>

RAbs(x) == <<IAbs(x[1]), x[2]>>

RAdd(x, y) ==
    IF IsFinite(x) /\ IsFinite(y) THEN Rat(x[1] * y[2] + y[1] * x[2], x[2] * y[2])
    ELSE IF IsNaN(x) \/ IsNaN(y) THEN NaN
    ELSE IF IsFinite(x) THEN y
    ELSE IF IsFinite(y) THEN x
    ELSE IF x = y THEN x ELSE NaN

RSub(x, y) == RAdd(x, RNeg(y))

RMul(x, y) == Rat(x[1] * y[1], x[2] * y[2])

\* x / y; a zero divisor gives inf or NaN (numpy warns and does not raise)
RDiv(x, y) ==
    IF ~IsFinite(y) THEN (IF IsFinite(x) THEN RInt(0) ELSE NaN)
    ELSE Rat(x[1] * y[2], x[2] * y[1])

\* x < y; every comparison with NaN is false
RLt(x, y) ==
    IF IsNaN(x) \/ IsNaN(y) THEN FALSE
    ELSE IF IsFinite(x) /\ IsFinite(y) THEN x[1] * y[2] < y[1] * x[2]
    ELSE IF IsFinite(x) THEN y = PosInf
    ELSE IF IsFinite(y) THEN x = RNeg(PosInf)
    ELSE x = RNeg(PosInf) /\ y = PosInf

RLe(x, y) == RLt(x, y) \/ (~IsNaN(x) /\ x = y)

\* floor of a finite rational
RFloor(x) == x[1] \div x[2]

\* nearest integer, ties to the even one (numpy rint)
RInt_HalfEven(x) ==
    LET f == RFloor(x)
        r == RSub(x, RInt(f))
    IN  IF RLt(r, <<1, 2>>) THEN f
        ELSE IF RLt(<<1, 2>>, r) THEN f + 1
        ELSE IF f % 2 = 0 THEN f ELSE f + 1

\* round(x, 2)
Round2(x) ==
    IF ~IsFinite(x) THEN x
    ELSE Rat(RInt_HalfEven(RMul(x, RInt(100))), 100)

RECURSIVE ISqrtIn(_, _, _)
ISqrtIn(m, lo, hi) ==
    IF lo = hi THEN lo
    ELSE LET mid == (lo + hi + 1) \div 2
         IN  IF mid * mid <= m THEN ISqrtIn(m, mid, hi) ELSE ISqrtIn(m, lo, mid - 1)

\* floor(sqrt(m)) of a natural number
ISqrt(m) == ISqrtIn(m, 0, IF m < 46340 THEN m ELSE 46340)

\* round(sqrt(x), 2): the nearest hundredth to the square root, ties to even
SqrtRound2(x) ==
    IF IsNaN(x) \/ RLt(x, RInt(0)) THEN NaN
    ELSE IF ~IsFinite(x) THEN x
    ELSE LET k    == ISqrt((10000 * x[1]) \div x[2])
             q    == (40000 * x[1]) \div x[2]
             odd  == (2 * k + 1) * (2 * k + 1)
             tie  == (40000 * x[1]) % x[2] = 0 /\ odd = q
         IN  IF odd > q THEN Rat(k, 100)
             ELSE IF tie /\ k % 2 = 0 THEN Rat(k, 100)
             ELSE Rat(k + 1, 100)

RECURSIVE RSumIn(_, _, _)
RSumIn(s, lo, hi) ==
    IF lo > hi THEN RInt(0)
    ELSE IF lo = hi THEN s[lo]
    ELSE LET mid == (lo + hi) \div 2
         IN  RAdd(RSumIn(s, lo, mid), RSumIn(s, mid + 1, hi))

\* np.sum
RSum(s) == RSumIn(s, 1, Len(s))

\* np.mean: the mean of an empty array is NaN
RMean(s) == RDiv(RSum(s), RInt(Len(s)))

AllFinite(s) == \A i \in 1..Len(s) : IsFinite(s[i])

----------------------------------------------------------------------------
(* numpy / sklearn helpers used by ModelTrainer.                           *)

\* data[:k] of a Python sequence
Take(s, k) == SubSeq(s, 1, IF k < Len(s) THEN k ELSE Len(s))

\* data[k:]
Drop(s, k) == SubSeq(s, k + 1, Len(s))

\* data[-k:] for k >= 1
LastN(s, k) == IF k >= Len(s) THEN s ELSE SubSeq(s, Len(s) - k + 1, Len(s))

\* linspace without its special case for a single point: the step is delta / 0
Linspace_NoSinglePoint(start, stop, num) ==
    LET step == RDiv(RSub(stop, start), RInt(num - 1))
    IN  [k \in 1..num |-> IF num > 1 /\ k = num THEN stop
                          ELSE RAdd(RMul(RInt(k - 1), step), start)]

\* linspace with endpoint=False: num steps, the last value short of stop
Linspace_NoEndpoint(start, stop, num) ==
    LET step == RDiv(RSub(stop, start), RInt(num))
    IN  [k \in 1..num |-> RAdd(RMul(RInt(k - 1), step), start)]

\* np.linspace(start, stop, num), endpoint included
Linspace(start, stop, num) ==
    LET div   == num - 1
        delta == RSub(stop, start)
        step  == RDiv(delta, RInt(div))
        y(i)  == IF div > 0 THEN RAdd(RMul(RInt(i), step), start)
                 ELSE RAdd(RMul(RInt(i), delta), start)
    IN  [k \in 1..num |-> IF num > 1 /\ k = num THEN stop ELSE y(k - 1)]

Elems(s) == {s[i] : i \in 1..Len(s)}

\* np.min / np.max of a non-empty column of finite values
SeqMin(s) == CHOOSE m \in Elems(s) : \A v \in Elems(s) : RLe(m, v)

SeqMax(s) == CHOOSE m \in Elems(s) : \A v \in Elems(s) : RLe(v, m)

\* MinMaxScaler(feature_range=(0, 1)) before any fit
UnfittedScaler == [fitted |-> FALSE, data_min |-> RInt(0), data_max |-> RInt(0)]

\* the parameters MinMaxScaler.fit learns from a non-empty column
FitScaler(data) == [fitted |-> TRUE, data_min |-> SeqMin(data), data_max |-> SeqMax(data)]

\* data_range_, a zero range being replaced by 1 (sklearn _handle_zeros_in_scale)
ScaleRange(sc) ==
    IF sc.data_max = sc.data_min THEN RInt(1) ELSE RSub(sc.data_max, sc.data_min)

\* MinMaxScaler.transform of one value
Transform(sc, v) == RDiv(RSub(v, sc.data_min), ScaleRange(sc))

\* MinMaxScaler.inverse_transform of one value
InverseTransform(sc, v) == RAdd(RMul(v, ScaleRange(sc)), sc.data_min)

TransformAll(sc, s) == [i \in 1..Len(s) |-> Transform(sc, s[i])]

InverseAll(sc, s) == [i \in 1..Len(s) |-> InverseTransform(sc, s[i])]

----------------------------------------------------------------------------
(* ModelTrainer: the pure parts.                                           *)

\* input checks that also reject an actual value of 0, guarding the MAPE division
MetricsRaises_ZeroGuard(actual, predicted) ==
    \/ Len(actual) = 0
    \/ Len(actual) # Len(predicted)
    \/ ~AllFinite(actual)
    \/ ~AllFinite(predicted)
    \/ \E i \in 1..Len(actual) : actual[i] = RInt(0)

\* sklearn's mean_absolute_error / mean_squared_error reject empty input, inputs
\* of different lengths and non-finite values with a ValueError
MetricsRaises(actual, predicted) ==
    \/ Len(actual) = 0
    \/ Len(actual) # Len(predicted)
    \/ ~AllFinite(actual)
    \/ ~AllFinite(predicted)

\* a calculate_metrics whose MAE is the mean of the signed errors
calculate_metrics_SignedMae(actual, predicted) ==
    LET n       == Len(actual)
        err     == [i \in 1..n |-> RSub(actual[i], predicted[i])]
        mae     == RMean(err)
        mse     == RMean([i \in 1..n |-> RMul(err[i], err[i])])
        mape    == RMul(RMean([i \in 1..n |-> RAbs(RDiv(err[i], actual[i]))]), RInt(100))
    IN  [MAE |-> Round2(mae), RMSE |-> SqrtRound2(mse), MAPE |-> Round2(mape)]

\* ModelTrainer.calculate_metrics
calculate_metrics(actual, predicted) ==
    LET n       == Len(actual)
        err     == [i \in 1..n |-> RSub(actual[i], predicted[i])]
        mae     == RMean([i \in 1..n |-> RAbs(err[i])])
        mse     == RMean([i \in 1..n |-> RMul(err[i], err[i])])
        mape    == RMul(RMean([i \in 1..n |-> RAbs(RDiv(err[i], actual[i]))]), RInt(100))
    IN  [MAE |-> Round2(mae), RMSE |-> SqrtRound2(mse), MAPE |-> Round2(mape)]

\* the metrics of the except branches: {'MAE': 0, 'RMSE': 0, 'MAPE': 0}
ZeroMetrics == [MAE |-> RInt(0), RMSE |-> RInt(0), MAPE |-> RInt(0)]

\* the except branch of train_arima and of train_lstm, for a non-empty column:
\* np.linspace(last_price, last_price * 1.05, forecast_steps)
FallbackForecast(close, forecast_steps) ==
    LET last_price == close[Len(close)]
    IN  Linspace(last_price, RMul(last_price, <<21, 20>>), forecast_steps)

\* int(len(data) * 0.8)
TrainSize(n) == (n * 4) \div 5

\* ModelTrainer.prepare_lstm_data: the windows X and the targets y
PrepareX(data, lookback) ==
    [j \in 1..(IF Len(data) > lookback THEN Len(data) - lookback ELSE 0) |->
        SubSeq(data, j, j + lookback - 1)]

PrepareY(data, lookback) ==
    [j \in 1..(IF Len(data) > lookback THEN Len(data) - lookback ELSE 0) |->
        data[j + lookback]]

----------------------------------------------------------------------------
(* Bounds of the model and constants of the program.                       *)

\* assets in the universe all_data: 0..MaxAssets
MaxAssets == 2

\* forecast_steps of the direct calls of train_arima / train_lstm /
\* train_and_forecast: 1..MaxHorizon
MaxHorizon == 3

\* lookback of the direct calls of train_lstm: 1..MaxLookback
MaxLookback == 2

\* the lookback train_and_forecast leaves to train_lstm's default; the program's
\* default of 60 needs series of more than 300 closes, the model scales it down
DefaultLookback == 2

\* forecast_steps=30 of the routes and of train_and_forecast
DefaultForecastSteps == 30

----------------------------------------------------------------------------
(* The data the loader hands over: the Close column of each price series.  *)

PoolIds == {"empty", "single", "ten", "zero", "sixteen"}

Ints(s) == [i \in 1..Len(s) |-> RInt(s[i])]

\* df['Close'].values of a series of the pool: a header-only file, a single row,
\* a constant series whose holdout is no longer than the default lookback, one with a
\* zero close in its holdout, and one long enough for both models
Close(df) ==
    CASE df = "empty"   -> <<>>
      [] df = "single"  -> Ints(<<0>>)
      [] df = "ten"     -> Ints(<<4, 4, 4, 4, 4, 4, 4, 4, 4, 4>>)
      [] df = "zero"    -> Ints(<<3, 1, 4, 1, 5, 9, 2, 6, 5, 0, 5>>)
      [] df = "sixteen" -> Ints(<<2, 3, 4, 2, 3, 4, 2, 3, 4, 2, 3, 4, 6, 4, 5, 6>>)

\* days since 1970-01-01 of a calendar date: what a Timestamp counts in
DaysFromCivil(y, m, d) ==
    LET yy  == IF m <= 2 THEN y - 1 ELSE y
        era == yy \div 400
        yoe == yy - era * 400
        doy == (153 * (IF m > 2 THEN m - 3 ELSE m + 9) + 2) \div 5 + d - 1
        doe == yoe * 365 + yoe \div 4 - yoe \div 100 + doy
    IN  era * 146097 + doe - 719468

\* the calendar date <<year, month, day>> a Timestamp is written as
CivilFromDays(z) ==
    LET zz  == z + 719468
        era == zz \div 146097
        doe == zz - era * 146097
        yoe == (doe - doe \div 1460 + doe \div 36524 - doe \div 146096) \div 365
        doy == doe - (365 * yoe + yoe \div 4 - yoe \div 100)
        mp  == (5 * doy + 2) \div 153
        d   == doy - (153 * mp + 2) \div 5 + 1
        m   == IF mp < 10 THEN mp + 3 ELSE mp - 9
        y   == yoe + era * 400
    IN  <<IF m <= 2 THEN y + 1 ELSE y, m, d>>

\* the date of the last row of each series of the pool
EndDate(df) ==
    CASE df = "empty"   -> DaysFromCivil(1970, 1, 1)
      [] df = "single"  -> DaysFromCivil(2023, 2, 10)
      [] df = "ten"     -> DaysFromCivil(2023, 12, 15)
      [] df = "zero"    -> DaysFromCivil(2024, 2, 10)
      [] df = "sixteen" -> DaysFromCivil(2024, 1, 1)

\* df['Date'] of a series of the pool: one row a day up to its last date
Date(df) == [i \in 1..Len(Close(df)) |-> EndDate(df) - (Len(Close(df)) - i)]

\* the file names of app.py's data directory, crypto_BTC.csv .. stock_MSFT.csv
Names == <<"BTC", "ETH", "AAPL", "MSFT">>

\* the values of the 'asset' query parameter: a loaded or an unknown name, or
\* "" for a request without the parameter
AssetParams == {Names[i] : i \in 1..MaxAssets} \cup {"XRP", ""}

----------------------------------------------------------------------------
(* The fitting libraries.  A fit either raises or returns a fitted model;  *)
(* which one, and which model, is the library's choice.  A fitted model is *)
(* a deterministic predictor returning finite numbers.                     *)

\* statsmodels results: "exact" reproduces the sample, "rw" is the random walk
ArimaKinds == {"exact", "rw"}

\* keras models: "last" repeats the newest value of its window, "first" the oldest
LstmKinds == {"last", "first"}

\* fitted_model.predict(start=train_size, end=len(data)-1)
ArimaPredict(kind, data, train_size) ==
    [j \in 1..(Len(data) - train_size) |->
        IF kind = "exact" THEN data[train_size + j]
        ELSE IF train_size + j = 1 THEN RInt(0) ELSE data[train_size + j - 1]]

\* fitted_model.forecast(steps=forecast_steps)
ArimaForecast(kind, data, forecast_steps) ==
    LET last == data[Len(data)]
        prev == IF Len(data) > 1 THEN data[Len(data) - 1] ELSE last
    IN  [k \in 1..forecast_steps |->
            IF kind = "rw" THEN last
            ELSE RAdd(last, RMul(RInt(k), RSub(last, prev)))]

\* model.predict(window) of the sequence model, in scaled units
LstmPredict(kind, window) ==
    IF kind = "last" THEN window[Len(window)] ELSE window[1]

----------------------------------------------------------------------------
(* State.                                                                  *)

VARIABLES
    HAS_ARIMA,       \* statsmodels imported
    HAS_AUTO_ARIMA,  \* pmdarima imported
    HAS_LSTM,        \* tensorflow imported
    all_data,        \* app.all_data: <<[name, df]>> in the dict's iteration order
    scaler,          \* model_trainer.scaler, shared by every call
    pc,              \* where the request being served stands
    ctx,             \* who called the forecaster that is running
    call,            \* arguments of the running train_* call
    arima,           \* what train_arima returned
    lstm,            \* what train_lstm returned
    work,            \* locals of train_lstm between its fit and its return
    results,         \* what train_and_forecast returned
    batch,           \* locals of batch_train_all_assets
    resp,            \* the response of the route
    exc,             \* the exception that left the call, "" when none
    log,             \* calls made while serving the request, in order
    thr,             \* locals of the train_lstm calls of concurrent requests
    fn,              \* a function called on its own: its arguments and what it returned
    arima_locals     \* what train_arima handed to the order search and to the fit

vars == <<HAS_ARIMA, HAS_AUTO_ARIMA, HAS_LSTM, all_data, scaler, pc, ctx, call,
          arima, lstm, work, results, batch, resp, exc, log, thr, fn,
          arima_locals>>

env == <<HAS_ARIMA, HAS_AUTO_ARIMA, HAS_LSTM, all_data>>

NoCall == [df |-> "empty", asset_name |-> "", forecast_steps |-> 0, lookback |-> 0]

\* a (forecast, metrics, model) tuple; path tells which return statement made it
NoResult == [path |-> "none", forecast |-> <<>>, metrics |-> ZeroMetrics, model |-> "None"]

NoWork ==
    [model |-> "None", metrics |-> ZeroMetrics, last_sequence |-> <<>>, forecast |-> <<>>,
     train_examples |-> <<>>, test_examples |-> <<>>]

NoResults == [set |-> FALSE, asset |-> "", arima |-> NoResult, lstm |-> NoResult]

\* i and all_metrics are the loop's locals; returned keeps, for each pass, the
\* bundle train_and_forecast returned to it
NoBatch == [i |-> 0, all_metrics |-> <<>>, returned |-> <<>>]

NoResp == [status |-> 0, kind |-> "none", error |-> "", rows |-> <<>>]

\* the requests served at the same time by the threaded development server
Threads == {1, 2}

\* locals of one concurrent train_lstm call; seen_* keep the parameters
\* self.scaler held when the call read it
NoThread ==
    [pc |-> "none", df |-> "empty", forecast_steps |-> 0, lookback |-> 0,
     scaled_data |-> <<>>, model |-> "None", metrics |-> ZeroMetrics, forecast |-> <<>>,
     result |-> NoResult,
     seen_transform |-> UnfittedScaler, seen_test |-> UnfittedScaler,
     seen_inverse |-> UnfittedScaler]

NoThreads == [t \in Threads |-> NoThread]

\* no function is being called on its own
NoFn == [op |-> "none"]

\* train_arima has not run: no order search, no order, no fit
NoArimaLocals ==
    [searched |-> FALSE, search_input |-> <<>>, order |-> <<>>,
     fitted |-> FALSE, fit_input |-> <<>>, test_data |-> <<>>]

\* the universes: every sequence of at most MaxAssets series of the pool, the
\* i-th one loaded under the i-th name; each name has a data file of its own,
\* so no series of the pool is loaded twice
Universes ==
    UNION {{u \in [1..n -> PoolIds] : \A i, j \in 1..n : u[i] = u[j] => i = j} :
              n \in 0..MaxAssets}

Init ==
    /\ HAS_ARIMA \in BOOLEAN
    /\ HAS_AUTO_ARIMA \in BOOLEAN
    /\ HAS_LSTM \in BOOLEAN
    /\ HAS_AUTO_ARIMA => HAS_ARIMA      \* pmdarima installs statsmodels
    /\ \E u \in Universes :
          all_data = [i \in 1..Len(u) |-> [name |-> Names[i], df |-> u[i]]]
    /\ scaler = UnfittedScaler
    /\ pc = "idle"
    /\ ctx = ""
    /\ call = NoCall
    /\ arima = NoResult
    /\ lstm = NoResult
    /\ work = NoWork
    /\ results = NoResults
    /\ batch = NoBatch
    /\ resp = NoResp
    /\ exc = ""
    /\ log = <<>>
    /\ thr = NoThreads
    /\ fn = NoFn
    /\ arima_locals = NoArimaLocals

Keys == {all_data[i].name : i \in 1..Len(all_data)}

\* all_data[name]
DfOf(name) == (CHOOSE i \in 1..Len(all_data) : all_data[i].name = name)

IsRoute(c) == c \in {"forecast", "download", "batch"}

\* an entry of the log: the function entered, the library fit reached
\* (arima_fit, lstm_fit) or returned from (arima_fitted, lstm_fitted), and the
\* asset it works for
Ev(op) == [op |-> op, asset |-> call.asset_name]

----------------------------------------------------------------------------
(* ModelTrainer.train_arima                                                *)

\* what the statsmodels / pmdarima calls of the try block may do on this data:
\* raise, or return a fitted model
ArimaOutcomes(data) ==
    IF Len(data) = 0 \/ (HAS_AUTO_ARIMA /\ TrainSize(Len(data)) = 0)
    THEN {"raise"}
    ELSE {"raise"} \cup ArimaKinds

\* an except branch that reports undefined metrics instead of zeros
Fallback_NanMetrics(data, forecast_steps) ==
    [path |-> "fallback", forecast |-> FallbackForecast(data, forecast_steps),
     metrics |-> [MAE |-> NaN, RMSE |-> NaN, MAPE |-> NaN], model |-> "None"]

\* the except branch; on an empty column df['Close'].iloc[-1] raises IndexError
Fallback(data, forecast_steps) ==
    [path |-> "fallback", forecast |-> FallbackForecast(data, forecast_steps),
     metrics |-> ZeroMetrics, model |-> "None"]

\* the try block of train_arima with the library's outcome o: the tuple it
\* returns, or NoResult when an exception sends it to the except branch
ArimaTry(data, forecast_steps, o) ==
    LET train_size       == TrainSize(Len(data))
        test_data        == Drop(data, train_size)
        test_predictions == ArimaPredict(o, data, train_size)
    IN  IF ~HAS_ARIMA \/ o = "raise" THEN NoResult
        ELSE IF MetricsRaises(test_data, test_predictions) THEN NoResult
        ELSE [path |-> "fit", forecast |-> ArimaForecast(o, data, forecast_steps),
              metrics |-> calculate_metrics(test_data, test_predictions), model |-> o]

\* an order search that is handed the whole series, holdout included
SearchInput_FullData(data, train_size) == data

\* lines 66 and 73-74: train_data, the argument of auto_arima
SearchInput(data, train_size) == Take(data, train_size)

\* model.order of line 82: the order the stepwise search settles on, which is
\* a function of the values it was given (d = 0 for a constant sample)
AutoArimaOrder(train_data) ==
    <<1, IF \A i \in 1..Len(train_data) : train_data[i] = train_data[1] THEN 0 ELSE 1, 1>>

\* line 86: order = (5, 1, 0)
DefaultOrder == <<5, 1, 0>>

\* what the try block of train_arima hands to the libraries when their outcome is o
ArimaLocals(data, o) ==
    LET train_size == TrainSize(Len(data))
        train_data == SearchInput(data, train_size)
    IN  IF ~HAS_ARIMA THEN NoArimaLocals
        ELSE [searched     |-> HAS_AUTO_ARIMA,
              search_input |-> IF HAS_AUTO_ARIMA THEN train_data ELSE <<>>,
              order        |-> IF ~HAS_AUTO_ARIMA THEN DefaultOrder
                               ELSE IF o = "raise" THEN <<>>
                               ELSE AutoArimaOrder(train_data),
              fitted       |-> o # "raise",
              fit_input    |-> IF o = "raise" THEN <<>> ELSE data,
              test_data    |-> IF o = "raise" THEN <<>> ELSE Drop(data, train_size)]

\* a train_and_forecast that skips train_lstm once train_arima has fallen back
AfterArima_ShortCircuit ==
    IF ctx = "api_arima" THEN "done"
    ELSE IF arima'.path = "fallback" THEN "bundle" ELSE "train_lstm"

\* where a forecaster's caller continues
AfterArima == IF ctx = "api_arima" THEN "done" ELSE "train_lstm"

AfterLstm == IF ctx = "api_lstm" THEN "done" ELSE "bundle"

TrainArima ==
    /\ pc = "train_arima"
    /\ LET data == Close(call.df)
       IN  \E o \in ArimaOutcomes(data) :
             LET r == ArimaTry(data, call.forecast_steps, o)
             IN  /\ IF r.path = "fit"
                    THEN /\ arima' = r
                         /\ pc' = AfterArima
                         /\ exc' = exc
                    ELSE IF Len(data) = 0
                    THEN /\ arima' = arima
                         /\ pc' = "raised"
                         /\ exc' = "IndexError"
                    ELSE /\ arima' = Fallback(data, call.forecast_steps)
                         /\ pc' = AfterArima
                         /\ exc' = exc
                 /\ log' = log \o
                       (IF ~HAS_ARIMA THEN <<Ev("train_arima")>>
                        ELSE IF o = "raise" THEN <<Ev("train_arima"), Ev("arima_fit")>>
                        ELSE <<Ev("train_arima"), Ev("arima_fit"), Ev("arima_fitted")>>)
                 /\ arima_locals' = ArimaLocals(data, o)
    /\ UNCHANGED <<env, thr, fn, scaler, ctx, call, lstm, work, results, batch, resp>>

----------------------------------------------------------------------------
(* ModelTrainer.train_lstm                                                 *)

\* what model.fit of the sequence model may do: raise, or return a fitted model
LstmOutcomes == {"raise"} \cup LstmKinds

\* X_train of line 133: the windows of scaled_data[:train_size+lookback]
XTrain(scaled_data, lookback) ==
    PrepareX(Take(scaled_data, TrainSize(Len(scaled_data)) + lookback), lookback)

\* X_test and y_test of line 134: the windows of scaled_data[train_size:]
XTest(scaled_data, lookback) ==
    PrepareX(Drop(scaled_data, TrainSize(Len(scaled_data))), lookback)

YTest(scaled_data, lookback) ==
    PrepareY(Drop(scaled_data, TrainSize(Len(scaled_data))), lookback)

\* prepare_lstm_data on the slice data[first : first + len]: for each example the
\* 0-based positions in the series of its lookback inputs and of its target
PrepareIndexes(first, len, lookback) ==
    [j \in 1..(IF len > lookback THEN len - lookback ELSE 0) |->
        [inputs |-> [t \in 1..lookback |-> first + (j - 1) + (t - 1)],
         target |-> first + (j - 1) + lookback]]

\* line 133: the training examples, made from scaled_data[:train_size+lookback]
TrainExamples(n, lookback) ==
    LET train_size == TrainSize(n)
        len        == IF train_size + lookback < n THEN train_size + lookback ELSE n
    IN  PrepareIndexes(0, len, lookback)

\* line 134: the evaluation examples, made from scaled_data[train_size:]
TestExamples(n, lookback) == PrepareIndexes(TrainSize(n), n - TrainSize(n), lookback)

\* X.reshape(X.shape[0], X.shape[1], 1) raises IndexError on an array without
\* windows, whose shape is (0,)
ReshapeRaises(X) == Len(X) = 0

\* a scaler that is fitted once and keeps its parameters in later calls
ScalerAfterFit_FitOnce(data) ==
    IF scaler.fitted THEN scaler
    ELSE IF Len(data) = 0 THEN UnfittedScaler ELSE FitScaler(data)

\* the scaler after self.scaler.fit_transform(data): fit resets the scaler and
\* then rejects an empty column with a ValueError
ScalerAfterFit(data) == IF Len(data) = 0 THEN UnfittedScaler ELSE FitScaler(data)

\* lines 162-168: the holdout metrics of the fitted model, in price units
LstmMetrics(sc, kind, scaled_data, lookback) ==
    LET X_test           == XTest(scaled_data, lookback)
        y_test           == YTest(scaled_data, lookback)
        test_predictions == InverseAll(sc, [j \in 1..Len(X_test) |-> LstmPredict(kind, X_test[j])])
        actual_test      == InverseAll(sc, y_test)
    IN  calculate_metrics(actual_test, test_predictions)

\* the except branch of train_lstm, taken from the try block at any point
LstmExcept ==
    LET data == Close(call.df)
    IN  IF Len(data) = 0
        THEN /\ lstm' = lstm
             /\ pc' = "raised"
             /\ exc' = "IndexError"
        ELSE /\ lstm' = Fallback(data, call.forecast_steps)
             /\ pc' = AfterLstm
             /\ exc' = exc

\* lines 119-172: from the try to the seeding of the roll-forward loop
LstmFit ==
    /\ pc = "train_lstm"
    /\ LET data        == Close(call.df)
           sc          == ScalerAfterFit(data)
           scaled_data == TransformAll(sc, data)
           lookback    == call.lookback
       IN  IF ~HAS_LSTM
           THEN /\ LstmExcept
                /\ log' = Append(log, Ev("train_lstm"))
                /\ UNCHANGED <<scaler, work>>
           ELSE IF \/ Len(data) = 0
                   \/ ReshapeRaises(XTrain(scaled_data, lookback))
                   \/ ReshapeRaises(XTest(scaled_data, lookback))
           THEN /\ LstmExcept
                /\ scaler' = sc
                /\ log' = Append(log, Ev("train_lstm"))
                /\ UNCHANGED work
           ELSE \E o \in LstmOutcomes :
                  /\ scaler' = sc
                  /\ log' = log \o (IF o = "raise" THEN <<Ev("train_lstm"), Ev("lstm_fit")>>
                                    ELSE <<Ev("train_lstm"), Ev("lstm_fit"), Ev("lstm_fitted")>>)
                  /\ IF o = "raise"
                     THEN LstmExcept /\ UNCHANGED work
                     ELSE /\ work' = [model         |-> o,
                                      metrics       |-> LstmMetrics(sc, o, scaled_data, lookback),
                                      last_sequence |-> LastN(scaled_data, lookback),
                                      forecast      |-> <<>>,
                                      train_examples |-> TrainExamples(Len(scaled_data), lookback),
                                      test_examples |-> TestExamples(Len(scaled_data), lookback)]
                          /\ pc' = "lstm_loop"
                          /\ UNCHANGED <<lstm, exc>>
    /\ UNCHANGED <<env, thr, fn, arima_locals, ctx, call, arima, results, batch, resp>>

\* a loop that hands the model the whole scaled series, not its last window
LoopInput_WholeSeries(last_sequence) == TransformAll(scaler, Close(call.df))

\* line 175: what the loop hands to model.predict, last_sequence reshaped
LoopInput(last_sequence) == last_sequence

\* a loop whose window grows: the prediction is appended, nothing is dropped
RollWindow_Grow(last_sequence, next_pred) == Append(last_sequence, next_pred)

\* line 178: np.append(last_sequence[1:], next_pred, axis=0)
RollWindow(last_sequence, next_pred) == Append(Tail(last_sequence), next_pred)

\* one pass of the loop of lines 174-178
LstmStep ==
    /\ pc = "lstm_loop"
    /\ Len(work.forecast) < call.forecast_steps
    /\ LET next_pred == LstmPredict(work.model, LoopInput(work.last_sequence))
       IN  work' = [work EXCEPT !.forecast = Append(@, next_pred),
                                !.last_sequence = RollWindow(@, next_pred)]
    /\ UNCHANGED <<env, thr, fn, arima_locals, scaler, pc, ctx, call, arima, lstm, results, batch, resp, exc, log>>

\* lines 180-182, once the loop has made forecast_steps passes
LstmReturn ==
    /\ pc = "lstm_loop"
    /\ Len(work.forecast) >= call.forecast_steps
    /\ lstm' = [path |-> "fit", forecast |-> InverseAll(scaler, work.forecast),
                metrics |-> work.metrics, model |-> work.model]
    /\ work' = NoWork
    /\ pc' = AfterLstm
    /\ UNCHANGED <<env, thr, fn, arima_locals, scaler, ctx, call, arima, results, batch, resp, exc, log>>

----------------------------------------------------------------------------
(* ModelTrainer.train_and_forecast and batch_train_all_assets              *)

\* entering train_and_forecast(df, asset_name, forecast_steps) for caller c;
\* train_lstm is called without a lookback and so with its default
EnterTrainAndForecast(c, df, asset_name, forecast_steps) ==
    /\ ctx' = c
    /\ call' = [df |-> df, asset_name |-> asset_name,
                forecast_steps |-> forecast_steps, lookback |-> DefaultLookback]
    /\ arima' = NoResult
    /\ lstm' = NoResult
    /\ results' = NoResults
    /\ log' = Append(log, [op |-> "train_and_forecast", asset |-> asset_name])
    /\ pc' = "train_arima"

\* where train_and_forecast returns to
AfterBundle ==
    CASE ctx = "forecast" -> "forecast_render"
      [] ctx = "download" -> "download_csv"
      [] ctx = "batch"    -> "batch_append"
      [] OTHER            -> "done"

\* lines 206-218: the results dict
Bundle ==
    /\ pc = "bundle"
    /\ results' = [set |-> TRUE, asset |-> call.asset_name, arima |-> arima, lstm |-> lstm]
    /\ pc' = AfterBundle
    /\ UNCHANGED <<env, thr, fn, arima_locals, scaler, ctx, call, arima, lstm, work, batch, resp, exc, log>>

\* the row batch_train_all_assets appends for one asset (lines 227-235)
MetricsRow(r) ==
    [Asset      |-> r.asset,
     ARIMA_MAE  |-> r.arima.metrics.MAE,
     ARIMA_RMSE |-> r.arima.metrics.RMSE,
     ARIMA_MAPE |-> r.arima.metrics.MAPE,
     LSTM_MAE   |-> r.lstm.metrics.MAE,
     LSTM_RMSE  |-> r.lstm.metrics.RMSE,
     LSTM_MAPE  |-> r.lstm.metrics.MAPE]

\* a loop that walks the items backwards
BatchItem_Reversed(data_dict, i) == data_dict[Len(data_dict) + 1 - i]

\* the asset the for loop of line 224 visits in its i-th pass
BatchItem(data_dict, i) == data_dict[i]

\* line 224-225: the loop takes the next item of data_dict.items()
BatchCall ==
    /\ pc = "batch_loop"
    /\ batch.i <= Len(all_data)
    /\ LET item == BatchItem(all_data, batch.i)
       IN  EnterTrainAndForecast("batch", item.df, item.name, DefaultForecastSteps)
    /\ UNCHANGED <<env, thr, fn, arima_locals, scaler, work, batch, resp, exc>>

\* lines 227-235
BatchAppend ==
    /\ pc = "batch_append"
    /\ batch' = [i           |-> batch.i + 1,
                 all_metrics |-> Append(batch.all_metrics, MetricsRow(results)),
                 returned    |-> Append(batch.returned, results)]
    /\ pc' = "batch_loop"
    /\ UNCHANGED <<env, thr, fn, arima_locals, scaler, ctx, call, arima, lstm, work, results, resp, exc, log>>

\* line 237: the loop is over, the DataFrame of the rows is returned
BatchReturn ==
    /\ pc = "batch_loop"
    /\ batch.i > Len(all_data)
    /\ pc' = "compare_best"
    /\ UNCHANGED <<env, thr, fn, arima_locals, scaler, ctx, call, arima, lstm, work, results, batch, resp, exc, log>>

----------------------------------------------------------------------------
(* The routes of app.py                                                    *)

\* app.py 143-160: /forecast
ForecastRoute ==
    /\ pc = "idle"
    /\ \E param \in AssetParams :
         LET selected_asset == IF param = "" THEN (IF Len(all_data) > 0 THEN all_data[1].name ELSE "")
                               ELSE param
         IN  IF selected_asset = "" \/ selected_asset \notin Keys
             THEN /\ resp' = [status |-> 200, kind |-> "forecast",
                              error |-> "Please select a valid asset", rows |-> <<>>]
                  /\ pc' = "done"
                  /\ ctx' = "forecast"
                  /\ UNCHANGED <<call, arima, lstm, results, log>>
             ELSE /\ EnterTrainAndForecast("forecast", all_data[DfOf(selected_asset)].df,
                                           selected_asset, DefaultForecastSteps)
                  /\ UNCHANGED resp
    /\ UNCHANGED <<env, thr, fn, arima_locals, scaler, work, batch, exc>>

\* app.py 170-195: the metrics table and the forecast data of the page
ForecastRender ==
    /\ pc = "forecast_render"
    /\ resp' = [status |-> 200, kind |-> "forecast", error |-> "",
                rows |-> <<[Model |-> "ARIMA", metrics |-> results.arima.metrics,
                            forecast |-> results.arima.forecast],
                           [Model |-> "LSTM", metrics |-> results.lstm.metrics,
                            forecast |-> results.lstm.forecast]>>]
    /\ pc' = "done"
    /\ UNCHANGED <<env, thr, fn, arima_locals, scaler, ctx, call, arima, lstm, work, results, batch, exc, log>>

\* app.py 249-256: /download_forecast
DownloadRoute ==
    /\ pc = "idle"
    /\ \E asset \in AssetParams :
         IF asset = "" \/ asset \notin Keys
         THEN /\ resp' = [status |-> 400, kind |-> "json", error |-> "Invalid asset", rows |-> <<>>]
              /\ pc' = "done"
              /\ ctx' = "download"
              /\ UNCHANGED <<call, arima, lstm, results, log>>
         ELSE /\ EnterTrainAndForecast("download", all_data[DfOf(asset)].df, asset,
                                       DefaultForecastSteps)
              /\ UNCHANGED resp
    /\ UNCHANGED <<env, thr, fn, arima_locals, scaler, work, batch, exc>>

\* pd.date_range(start, periods, freq='D')
DateRange(start, periods) == [k \in 1..periods |-> start + (k - 1)]

\* a range of 30 days that starts on the last observed date itself
ForecastDates_FromLastDate(last_date) == DateRange(last_date, 30)

\* app.py 260: pd.date_range(start=last_date, periods=31, freq='D')[1:]
ForecastDates(last_date) == Tail(DateRange(last_date, 31))

\* app.py 259-278: the DataFrame of the three columns, written as CSV; columns
\* of different lengths make the DataFrame constructor raise
DownloadCsv ==
    /\ pc = "download_csv"
    /\ LET df             == all_data[DfOf(call.asset_name)].df
           last_date      == Date(df)[Len(Date(df))]
           forecast_dates == ForecastDates(last_date)
       IN  IF /\ Len(results.arima.forecast) = Len(forecast_dates)
              /\ Len(results.lstm.forecast) = Len(forecast_dates)
           THEN /\ resp' = [status |-> 200, kind |-> "csv", error |-> "",
                            rows |-> [k \in 1..Len(forecast_dates) |->
                                        [Date           |-> CivilFromDays(forecast_dates[k]),
                                         ARIMA_Forecast |-> results.arima.forecast[k],
                                         LSTM_Forecast  |-> results.lstm.forecast[k]]]]
                /\ pc' = "done"
                /\ exc' = exc
           ELSE /\ resp' = resp
                /\ pc' = "raised"
                /\ exc' = "ValueError"
    /\ UNCHANGED <<env, thr, fn, arima_locals, scaler, ctx, call, arima, lstm, work, results, batch, log>>

\* app.py 203-213: /compare
CompareRoute ==
    /\ pc = "idle"
    /\ IF Len(all_data) = 0
       THEN /\ resp' = [status |-> 200, kind |-> "compare",
                        error |-> "No data available for comparison", rows |-> <<>>]
            /\ pc' = "done"
            /\ UNCHANGED batch
       ELSE /\ batch' = [i |-> 1, all_metrics |-> <<>>, returned |-> <<>>]
            /\ pc' = "batch_loop"
            /\ UNCHANGED resp
    /\ ctx' = "batch"
    /\ UNCHANGED <<env, thr, fn, arima_locals, scaler, call, arima, lstm, work, results, exc, log>>

\* the comparison with its operands swapped
Best_Model_Swapped(row) == IF RLt(row.LSTM_MAE, row.ARIMA_MAE) THEN "ARIMA" ELSE "LSTM"

\* the comparison with <= for <
Best_Model_Le(row) == IF RLe(row.ARIMA_MAE, row.LSTM_MAE) THEN "ARIMA" ELSE "LSTM"

\* app.py 216-219: the lambda that labels a row
Best_Model(row) == IF RLt(row.ARIMA_MAE, row.LSTM_MAE) THEN "ARIMA" ELSE "LSTM"

\* app.py 216-241: the labelled table of the page
CompareBest ==
    /\ pc = "compare_best"
    /\ resp' = [status |-> 200, kind |-> "compare", error |-> "",
                rows |-> [k \in 1..Len(batch.all_metrics) |->
                            [row |-> batch.all_metrics[k],
                             Best_Model |-> Best_Model(batch.all_metrics[k])]]]
    /\ pc' = "done"
    /\ UNCHANGED <<env, thr, fn, arima_locals, scaler, ctx, call, arima, lstm, work, results, batch, exc, log>>

\* app.py 318-320: an exception that leaves a route becomes a 500 response
InternalError ==
    /\ pc = "raised"
    /\ IsRoute(ctx)
    /\ resp' = [status |-> 500, kind |-> "error", error |-> exc, rows |-> <<>>]
    /\ pc' = "done"
    /\ UNCHANGED <<env, thr, fn, arima_locals, scaler, ctx, call, arima, lstm, work, results, batch, exc, log>>

----------------------------------------------------------------------------
(* Direct calls of the ModelTrainer methods, on a loaded series.           *)

CallTrainArima ==
    /\ pc = "idle"
    /\ \E i \in 1..Len(all_data), h \in 1..MaxHorizon :
         call' = [df |-> all_data[i].df, asset_name |-> all_data[i].name,
                  forecast_steps |-> h, lookback |-> 0]
    /\ ctx' = "api_arima"
    /\ pc' = "train_arima"
    /\ UNCHANGED <<env, thr, fn, arima_locals, scaler, arima, lstm, work, results, batch, resp, exc, log>>

CallTrainLstm ==
    /\ pc = "idle"
    /\ \E i \in 1..Len(all_data), h \in 1..MaxHorizon, lb \in 1..MaxLookback :
         call' = [df |-> all_data[i].df, asset_name |-> all_data[i].name,
                  forecast_steps |-> h, lookback |-> lb]
    /\ ctx' = "api_lstm"
    /\ pc' = "train_lstm"
    /\ UNCHANGED <<env, thr, fn, arima_locals, scaler, arima, lstm, work, results, batch, resp, exc, log>>

CallTrainAndForecast ==
    /\ pc = "idle"
    /\ \E i \in 1..Len(all_data), h \in 1..MaxHorizon :
         EnterTrainAndForecast("api_taf", all_data[i].df, all_data[i].name, h)
    /\ UNCHANGED <<env, thr, fn, arima_locals, scaler, work, batch, resp, exc>>

\* the request is over; only the loaded data and the shared scaler outlive it
Finish ==
    /\ \/ pc = "done"
       \/ pc = "raised" /\ ~IsRoute(ctx)
    /\ pc' = "idle"
    /\ ctx' = ""
    /\ call' = NoCall
    /\ arima' = NoResult
    /\ lstm' = NoResult
    /\ work' = NoWork
    /\ results' = NoResults
    /\ batch' = NoBatch
    /\ resp' = NoResp
    /\ exc' = ""
    /\ log' = <<>>
    /\ arima_locals' = NoArimaLocals
    /\ UNCHANGED <<env, thr, fn, scaler>>

Next ==
    \/ ForecastRoute \/ ForecastRender
    \/ DownloadRoute \/ DownloadCsv
    \/ CompareRoute \/ CompareBest
    \/ InternalError
    \/ CallTrainArima \/ CallTrainLstm \/ CallTrainAndForecast
    \/ TrainArima \/ LstmFit \/ LstmStep \/ LstmReturn \/ Bundle
    \/ BatchCall \/ BatchAppend \/ BatchReturn
    \/ Finish

Spec == Init /\ [][Next]_vars

----------------------------------------------------------------------------
(* Properties.                                                             *)

Returned(r) == r.path # "none"

\* the running call is one of train_and_forecast
InTrainAndForecast == ctx \in {"forecast", "download", "batch", "api_taf"}

LastClose == Close(call.df)[Len(Close(call.df))]

\* non-decreasing: no value is below the one before it
Monotone(f) == \A i \in 1..(Len(f) - 1) : RLe(f[i], f[i + 1])

ForecastOk(r) ==
    Returned(r) => Len(r.forecast) = call.forecast_steps /\ AllFinite(r.forecast)

\* C1: on a non-empty series train_arima and train_lstm do not raise, and the
\* forecast they return, fitted or fallback, has exactly forecast_steps values,
\* every one of them finite.
C1_ForecastLengthFinite ==
    /\ ForecastOk(arima)
    /\ ForecastOk(lstm)
    /\ (Len(Close(call.df)) > 0 => pc # "raised")

C1_Witness ==
    /\ arima.path = "fallback"
    /\ lstm.path = "fit"
    /\ call.forecast_steps = 1

FallbackLine(r) ==
    r.path = "fallback" =>
        /\ Monotone(r.forecast)
        /\ r.forecast[1] = LastClose
        /\ r.forecast[Len(r.forecast)] = RMul(LastClose, <<21, 20>>)

\* C2 as stated: every fallback forecast is non-decreasing, starts at the last
\* close c and ends at 1.05 * c, for every horizon >= 1.
C2_Original == FallbackLine(arima) /\ FallbackLine(lstm)

FallbackLineFrom2(r) ==
    r.path = "fallback" =>
        /\ Monotone(r.forecast)
        /\ r.forecast[1] = LastClose
        /\ (call.forecast_steps >= 2 =>
                r.forecast[call.forecast_steps] = RMul(LastClose, <<21, 20>>))
        /\ (call.forecast_steps = 1 => r.forecast = <<LastClose>>)

\* C2 amended: every fallback forecast is non-decreasing and starts at the last
\* close c; for a horizon >= 2 it ends at 1.05 * c, for a horizon of 1 its only
\* value is c.
C2_FallbackLine == FallbackLineFrom2(arima) /\ FallbackLineFrom2(lstm)

C2_Witness ==
    /\ lstm.path = "fallback"
    /\ call.forecast_steps = 3
    /\ RLt(lstm.forecast[1], lstm.forecast[2])
    /\ RLt(lstm.forecast[2], lstm.forecast[3])

\* the try block of train_arima cannot succeed: no statsmodels, or an order
\* search on an empty train split
ArimaMustFail ==
    ~HAS_ARIMA \/ (HAS_AUTO_ARIMA /\ TrainSize(Len(Close(call.df))) = 0)

\* the try block of train_lstm cannot succeed: no tensorflow, or no window in
\* the train part or in the holdout
LstmMustFail ==
    LET n == Len(Close(call.df))
    IN  \/ ~HAS_LSTM
        \/ TrainSize(n) = 0
        \/ n <= call.lookback
        \/ n - TrainSize(n) <= call.lookback

IsFallbackTuple(r) == r.metrics = ZeroMetrics /\ r.model = "None"

\* C3: a result of the fallback path, taken because the try block raised, has
\* the metrics MAE = 0, RMSE = 0, MAPE = 0 and the model handle None.
C3_FallbackZeroMetrics ==
    /\ (Returned(arima) /\ (arima.path = "fallback" \/ ArimaMustFail) => IsFallbackTuple(arima))
    /\ (Returned(lstm) /\ (lstm.path = "fallback" \/ LstmMustFail) => IsFallbackTuple(lstm))

C3_Witness ==
    /\ HAS_LSTM
    /\ call.df = "ten"
    /\ lstm.path = "fallback"
    /\ arima.path = "fit"

\* C4 as stated: a returned result has all three metrics equal to 0 only if it
\* came from the fallback path; a fitted model never reports MAE = RMSE = MAPE = 0.
C4_ZeroMetricsOnlyFallback ==
    /\ (Returned(arima) /\ arima.metrics = ZeroMetrics => arima.path = "fallback")
    /\ (Returned(lstm) /\ lstm.metrics = ZeroMetrics => lstm.path = "fallback")

HasRun(op) == \E k \in 1..Len(log) : log[k].op = op /\ log[k].asset = call.asset_name

ForecasterOps == {"train_arima", "arima_fit", "train_lstm", "lstm_fit"}

\* C6 as stated: for an asset that is not loaded or a series without rows,
\* train_and_forecast enters no forecaster and attempts no fit, and no bundle is
\* built: the input is refused before that.
C6_InvalidInputRejected ==
    InTrainAndForecast /\ (call.asset_name \notin Keys \/ Close(call.df) = <<>>) =>
        /\ \A k \in 1..Len(log) : log[k].op \notin ForecasterOps
        /\ ~results.set

\* the labelled rows of a rendered comparison page
CompareRows == IF resp.kind = "compare" THEN resp.rows ELSE <<>>

\* C7: in the comparison table a row whose two MAE values differ is labelled
\* with the model of the strictly lower MAE.
C7_LowerMaeWins ==
    \A k \in 1..Len(CompareRows) :
        LET r == CompareRows[k]
        IN  /\ (RLt(r.row.ARIMA_MAE, r.row.LSTM_MAE) => r.Best_Model = "ARIMA")
            /\ (RLt(r.row.LSTM_MAE, r.row.ARIMA_MAE) => r.Best_Model = "LSTM")

C7_Witness ==
    \E k \in 1..Len(CompareRows) :
        /\ RLt(RInt(0), CompareRows[k].row.LSTM_MAE)
        /\ RLt(CompareRows[k].row.LSTM_MAE, CompareRows[k].row.ARIMA_MAE)
        /\ CompareRows[k].Best_Model = "LSTM"

\* C8 as stated: a row whose ARIMA_MAE equals its LSTM_MAE is labelled 'ARIMA'.
C8_Original ==
    \A k \in 1..Len(CompareRows) :
        CompareRows[k].row.ARIMA_MAE = CompareRows[k].row.LSTM_MAE =>
            CompareRows[k].Best_Model = "ARIMA"

\* C8 amended: a row whose ARIMA_MAE equals its LSTM_MAE, both being 0 after
\* two fallbacks included, is labelled 'LSTM'.
C8_TieGoesToLstm ==
    \A k \in 1..Len(CompareRows) :
        CompareRows[k].row.ARIMA_MAE = CompareRows[k].row.LSTM_MAE =>
            CompareRows[k].Best_Model = "LSTM"

C8_Witness ==
    /\ Len(CompareRows) = 2
    /\ Len(batch.returned) = 2
    /\ batch.returned[1].arima.path = "fallback"
    /\ batch.returned[1].lstm.path = "fallback"
    /\ CompareRows[1].Best_Model = "LSTM"
    /\ batch.returned[2].arima.path = "fit"
    /\ batch.returned[2].lstm.path = "fit"
    /\ CompareRows[2].row.ARIMA_MAE = CompareRows[2].row.LSTM_MAE
    /\ RLt(RInt(0), CompareRows[2].row.ARIMA_MAE)

\* C9 as stated: in the comparison table a model whose tuple came from the
\* fallback path is not the best model of a row whose other model was fitted
\* with an MAE above 0.
C9_FallbackNeverBest ==
    \A k \in 1..Len(CompareRows) :
        LET b == batch.returned[k]
            r == CompareRows[k]
        IN  /\ (b.arima.path = "fallback" /\ b.lstm.path = "fit" /\ RLt(RInt(0), r.row.LSTM_MAE)
                    => r.Best_Model # "ARIMA")
            /\ (b.lstm.path = "fallback" /\ b.arima.path = "fit" /\ RLt(RInt(0), r.row.ARIMA_MAE)
                    => r.Best_Model # "LSTM")

\* the entries of train_and_forecast in the log, in order
TafCalls == SelectSeq(log, LAMBDA e : e.op = "train_and_forecast")

\* the metric triples train_arima can return for a series
ArimaTriples(df) ==
    {ZeroMetrics} \cup
    {calculate_metrics(Drop(Close(df), TrainSize(Len(Close(df)))),
                       ArimaPredict(o, Close(df), TrainSize(Len(Close(df))))) : o \in ArimaKinds}

\* the metric triples train_lstm can return for a series with the default lookback
LstmTriples(df) ==
    {ZeroMetrics} \cup
    (IF Len(Close(df)) - TrainSize(Len(Close(df))) <= DefaultLookback THEN {}
     ELSE {LstmMetrics(FitScaler(Close(df)), o,
                       TransformAll(FitScaler(Close(df)), Close(df)), DefaultLookback) :
             o \in LstmKinds})

\* C10: batch_train_all_assets calls train_and_forecast for the items of
\* all_data in iteration order, once each; it has exactly one row for each call
\* that returned, in the same order, holding the asset's name and the six metrics
\* of the bundle returned for that asset; what it returns has one row per asset.
C10_OneRowPerAssetInOrder ==
    ctx = "batch" =>
        LET n    == Len(TafCalls)
            rows == batch.all_metrics
        IN  /\ n <= Len(all_data)
            /\ \A k \in 1..n : TafCalls[k].asset = all_data[k].name
            /\ Len(rows) = Len(batch.returned)
            /\ Len(rows) \in {n - 1, n}
            /\ \A k \in 1..Len(rows) :
                  LET b == batch.returned[k]
                  IN  /\ rows[k].Asset = all_data[k].name
                      /\ b.asset = all_data[k].name
                      /\ rows[k].ARIMA_MAE = b.arima.metrics.MAE
                      /\ rows[k].ARIMA_RMSE = b.arima.metrics.RMSE
                      /\ rows[k].ARIMA_MAPE = b.arima.metrics.MAPE
                      /\ rows[k].LSTM_MAE = b.lstm.metrics.MAE
                      /\ rows[k].LSTM_RMSE = b.lstm.metrics.RMSE
                      /\ rows[k].LSTM_MAPE = b.lstm.metrics.MAPE
            /\ (pc = "compare_best" =>
                  /\ n = Len(all_data)
                  /\ Len(rows) = Len(all_data)
                  /\ \A k \in 1..Len(rows) :
                        /\ batch.returned[k].arima.metrics \in ArimaTriples(all_data[k].df)
                        /\ batch.returned[k].lstm.metrics \in LstmTriples(all_data[k].df))

C10_Witness ==
    /\ pc = "compare_best"
    /\ Len(batch.all_metrics) = 2
    /\ batch.returned[1].arima.path = "fallback"
    /\ batch.returned[1].lstm.path = "fit"
    /\ batch.returned[2].lstm.path = "fallback"
    /\ batch.all_metrics[1].LSTM_MAE # batch.all_metrics[2].ARIMA_MAE
    /\ batch.all_metrics[1].Asset = "BTC"
    /\ batch.all_metrics[2].Asset = "ETH"

----------------------------------------------------------------------------
(* The roll-forward loop of train_lstm.                                    *)

\* the scaled observations the loop is seeded with: the last lookback values
\* of the call's own series under the call's own fit
SeedWindow ==
    LastN(TransformAll(FitScaler(Close(call.df)), Close(call.df)), call.lookback)

\* the window that produces forecast value k: the last lookback values of the
\* seed followed by the forecast values 1..k-1
WindowBefore(seed, f, k) == SubSeq(seed \o f, k, k + Len(seed) - 1)

\* f is what the model makes of the seed alone, each value from the window of
\* the values before it
RolledFrom(model, seed, f) ==
    \A k \in 1..Len(f) : f[k] = LstmPredict(model, WindowBefore(seed, f, k))

\* C11: forecast value k of the sequence forecaster is determined by the fitted
\* model, the last lookback scaled observations and the forecast values 1..k-1,
\* and by nothing else: at every pass of the loop and in the forecast returned,
\* value k is the model's prediction for the window made of those values.
C11_NoLookahead ==
    /\ (pc = "lstm_loop" => RolledFrom(work.model, SeedWindow, work.forecast))
    /\ (lstm.path = "fit" =>
            /\ Len(lstm.forecast) = call.forecast_steps
            /\ RolledFrom(lstm.model, SeedWindow,
                          TransformAll(FitScaler(Close(call.df)), lstm.forecast)))

C11_Witness ==
    /\ lstm.path = "fit"
    /\ lstm.model = "first"
    /\ call.df = "sixteen"
    /\ call.lookback = 2
    /\ call.forecast_steps = 3
    /\ lstm.forecast[3] = lstm.forecast[1]
    /\ lstm.forecast[1] # lstm.forecast[2]

----------------------------------------------------------------------------
(* Concurrent requests.  app.run serves each request in a thread of its    *)
(* own, and every request calls train_lstm on the one model_trainer of     *)
(* app.py 33, whose scaler they share.  A call is cut where it reads or    *)
(* writes self.scaler; fit_transform is fit followed by transform.         *)

\* a scaler of the call's own, fitted on the call's own series
ScalerSeen_Own(t) == ScalerAfterFit(Close(thr[t].df))

\* self.scaler as a call finds it: the attribute of the shared instance
ScalerSeen(t) == scaler

\* lines 172-178: the forecast list after the given number of passes
RECURSIVE RollForward(_, _, _, _)
RollForward(model, last_sequence, forecast, steps) ==
    IF steps = 0 THEN forecast
    ELSE LET next_pred == LstmPredict(model, LoopInput(last_sequence))
         IN  RollForward(model, RollWindow(last_sequence, next_pred),
                         Append(forecast, next_pred), steps - 1)

\* the except branch of train_lstm in thread t
TExcept(t) ==
    LET data == Close(thr[t].df)
    IN  IF Len(data) = 0
        THEN [thr[t] EXCEPT !.pc = "raised"]
        ELSE [thr[t] EXCEPT !.pc = "done",
                            !.result = Fallback(data, thr[t].forecast_steps)]

\* line 125, first half: self.scaler.fit(data)
TFit(t) ==
    /\ thr[t].pc = "start"
    /\ LET data == Close(thr[t].df)
       IN  IF ~HAS_LSTM
           THEN /\ thr' = [thr EXCEPT ![t] = TExcept(t)]
                /\ UNCHANGED scaler
           ELSE /\ scaler' = ScalerAfterFit(data)
                /\ thr' = [thr EXCEPT ![t] = IF Len(data) = 0 THEN TExcept(t)
                                             ELSE [thr[t] EXCEPT !.pc = "transform"]]
    /\ UNCHANGED <<env, fn, arima_locals, pc, ctx, call, arima, lstm, work, results, batch, resp, exc, log>>

\* line 125, second half, to line 138: transform with the scaler as it is now,
\* then the split, the windows and the reshape; an unfitted scaler raises
TTransform(t) ==
    /\ thr[t].pc = "transform"
    /\ LET sc          == ScalerSeen(t)
           scaled_data == TransformAll(sc, Close(thr[t].df))
           lookback    == thr[t].lookback
       IN  thr' = [thr EXCEPT ![t] =
                     IF \/ ~sc.fitted
                        \/ ReshapeRaises(XTrain(scaled_data, lookback))
                        \/ ReshapeRaises(XTest(scaled_data, lookback))
                     THEN TExcept(t)
                     ELSE [thr[t] EXCEPT !.pc = "model_fit",
                                         !.scaled_data = scaled_data,
                                         !.seen_transform = scaler]]
    /\ UNCHANGED <<env, fn, arima_locals, scaler, pc, ctx, call, arima, lstm, work, results, batch, resp, exc, log>>

\* lines 141-160: build, compile and fit the model
TModelFit(t) ==
    /\ thr[t].pc = "model_fit"
    /\ \E o \in LstmOutcomes :
         thr' = [thr EXCEPT ![t] = IF o = "raise" THEN TExcept(t)
                                   ELSE [thr[t] EXCEPT !.pc = "test", !.model = o]]
    /\ UNCHANGED <<env, fn, arima_locals, scaler, pc, ctx, call, arima, lstm, work, results, batch, resp, exc, log>>

\* lines 163-168: the holdout metrics, inverse-transformed by self.scaler
TTest(t) ==
    /\ thr[t].pc = "test"
    /\ LET sc == ScalerSeen(t)
       IN  thr' = [thr EXCEPT ![t] =
                     IF ~sc.fitted THEN TExcept(t)
                     ELSE [thr[t] EXCEPT !.pc = "loop",
                                         !.metrics = LstmMetrics(sc, thr[t].model, thr[t].scaled_data,
                                                                 thr[t].lookback),
                                         !.seen_test = scaler]]
    /\ UNCHANGED <<env, fn, arima_locals, scaler, pc, ctx, call, arima, lstm, work, results, batch, resp, exc, log>>

\* lines 171-178: the roll-forward loop, which touches locals only
TLoop(t) ==
    /\ thr[t].pc = "loop"
    /\ thr' = [thr EXCEPT ![t].pc = "inverse",
                          ![t].forecast = RollForward(thr[t].model,
                                                      LastN(thr[t].scaled_data, thr[t].lookback),
                                                      <<>>, thr[t].forecast_steps)]
    /\ UNCHANGED <<env, fn, arima_locals, scaler, pc, ctx, call, arima, lstm, work, results, batch, resp, exc, log>>

\* lines 180-182: the forecast, inverse-transformed by self.scaler, is returned
TInverse(t) ==
    /\ thr[t].pc = "inverse"
    /\ LET sc == ScalerSeen(t)
       IN  thr' = [thr EXCEPT ![t] =
                     IF ~sc.fitted THEN TExcept(t)
                     ELSE [thr[t] EXCEPT !.pc = "done",
                                         !.result = [path     |-> "fit",
                                                     forecast |-> InverseAll(sc, thr[t].forecast),
                                                     metrics  |-> thr[t].metrics,
                                                     model    |-> thr[t].model],
                                         !.seen_inverse = scaler]]
    /\ UNCHANGED <<env, fn, arima_locals, scaler, pc, ctx, call, arima, lstm, work, results, batch, resp, exc, log>>

\* two requests for two loaded assets arrive together; each reaches train_lstm
\* through train_and_forecast, with forecast_steps=30 and the default lookback
InitC ==
    /\ HAS_ARIMA \in BOOLEAN
    /\ HAS_AUTO_ARIMA \in BOOLEAN
    /\ HAS_LSTM \in BOOLEAN
    /\ HAS_AUTO_ARIMA => HAS_ARIMA
    /\ \E u \in Universes :
          /\ Len(u) = 2
          /\ all_data = [i \in 1..Len(u) |-> [name |-> Names[i], df |-> u[i]]]
    /\ scaler = UnfittedScaler
    /\ pc = "idle"
    /\ ctx = ""
    /\ call = NoCall
    /\ arima = NoResult
    /\ lstm = NoResult
    /\ work = NoWork
    /\ results = NoResults
    /\ batch = NoBatch
    /\ resp = NoResp
    /\ exc = ""
    /\ log = <<>>
    /\ thr = [t \in Threads |->
                [NoThread EXCEPT !.pc = "start", !.df = all_data[t].df,
                                 !.forecast_steps = DefaultForecastSteps,
                                 !.lookback = DefaultLookback]]
    /\ fn = NoFn
    /\ arima_locals = NoArimaLocals

NextC ==
    \E t \in Threads :
        \/ TFit(t) \/ TTransform(t) \/ TModelFit(t)
        \/ TTest(t) \/ TLoop(t) \/ TInverse(t)

SpecC == InitC /\ [][NextC]_vars

\* the parameters a call fits on its own series
OwnScaler(t) == ScalerAfterFit(Close(thr[t].df))

\* what train_lstm returns for the series and the model of thread t when no
\* other call touches the scaler
AloneForecast(t) ==
    LET data   == Close(thr[t].df)
        scaled == TransformAll(OwnScaler(t), data)
    IN  InverseAll(OwnScaler(t),
                   RollForward(thr[t].model, LastN(scaled, thr[t].lookback), <<>>,
                               thr[t].forecast_steps))

AloneMetrics(t) ==
    LstmMetrics(OwnScaler(t), thr[t].model,
                TransformAll(OwnScaler(t), Close(thr[t].df)), thr[t].lookback)

\* the parameters self.scaler can hold while the two calls run
FittedByAnyCall == {ScalerAfterFit(Close(thr[u].df)) : u \in Threads}

\* C12: with two train_lstm calls running at the same time on the shared
\* ModelTrainer, what a call returns is computed with the parameters the shared
\* scaler holds at the moment the call reads it, which are its own or the ones
\* the other call fitted; the result is the one of a call running alone only
\* when every read found the call's own parameters.  (The witness is the
\* interleaving in which a call inverse-transforms its forecast with the other
\* call's parameters and returns prices in the wrong scale.)
C12_SharedScalerRace ==
    \A t \in Threads :
        thr[t].result.path = "fit" =>
            /\ thr[t].scaled_data = TransformAll(thr[t].seen_transform, Close(thr[t].df))
            /\ thr[t].result.metrics = LstmMetrics(thr[t].seen_test, thr[t].model,
                                                   thr[t].scaled_data, thr[t].lookback)
            /\ thr[t].result.forecast = InverseAll(thr[t].seen_inverse, thr[t].forecast)
            /\ {thr[t].seen_transform, thr[t].seen_test, thr[t].seen_inverse} \subseteq FittedByAnyCall
            /\ ({thr[t].seen_transform, thr[t].seen_test, thr[t].seen_inverse} = {OwnScaler(t)}
                    => /\ thr[t].result.forecast = AloneForecast(t)
                       /\ thr[t].result.metrics = AloneMetrics(t))

C12_Witness ==
    /\ thr[1].df = "sixteen"
    /\ thr[2].df = "zero"
    /\ thr[1].result.path = "fit"
    /\ thr[1].seen_transform = OwnScaler(1)
    /\ thr[1].seen_test = OwnScaler(2)
    /\ thr[1].seen_inverse = OwnScaler(2)
    /\ OwnScaler(2) # OwnScaler(1)
    /\ thr[1].result.forecast # AloneForecast(1)
    /\ thr[1].result.metrics # AloneMetrics(1)

----------------------------------------------------------------------------
(* Functions called on their own, outside a request.                       *)

\* the trainer and the routes at rest, with nothing loaded
AtRest ==
    /\ HAS_ARIMA = FALSE
    /\ HAS_AUTO_ARIMA = FALSE
    /\ HAS_LSTM = FALSE
    /\ all_data = <<>>
    /\ scaler = UnfittedScaler
    /\ pc = "idle"
    /\ ctx = ""
    /\ call = NoCall
    /\ arima = NoResult
    /\ lstm = NoResult
    /\ work = NoWork
    /\ results = NoResults
    /\ batch = NoBatch
    /\ resp = NoResp
    /\ exc = ""
    /\ log = <<>>
    /\ thr = NoThreads
    /\ arima_locals = NoArimaLocals

rest == <<env, scaler, pc, ctx, call, arima, lstm, work, results, batch, resp, exc, log, thr,
          arima_locals>>

\* longest actual / predicted array handed to calculate_metrics
MaxMetricsLen == 2

\* the prices the arrays are made of: a zero, whole prices, and prices an
\* eighth above and below 1 (errors of the same size, on a rounding tie)
MetricValues == {RInt(0), RInt(1), RInt(3), <<7, 8>>, <<9, 8>>}

MetricArrays == UNION {[1..n -> MetricValues] : n \in 0..MaxMetricsLen}

\* calculate_metrics(actual, predicted) is about to be called
InitM ==
    /\ AtRest
    /\ \E actual \in MetricArrays, predicted \in MetricArrays :
          fn = [op |-> "calculate_metrics", actual |-> actual, predicted |-> predicted,
                done |-> FALSE, raised |-> FALSE, out |-> ZeroMetrics]

\* the call: sklearn's checks raise, or the three rounded metrics are returned
CallCalculateMetrics ==
    /\ fn.op = "calculate_metrics"
    /\ ~fn.done
    /\ fn' = IF MetricsRaises(fn.actual, fn.predicted)
             THEN [fn EXCEPT !.done = TRUE, !.raised = TRUE]
             ELSE [fn EXCEPT !.done = TRUE,
                             !.out = calculate_metrics(fn.actual, fn.predicted)]
    /\ UNCHANGED rest

NextM == CallCalculateMetrics

SpecM == InitM /\ [][NextM]_vars

\* the call under examination is one of calculate_metrics that has returned
MetricsReturned == fn.op = "calculate_metrics" /\ fn.done /\ ~fn.raised

NoZeroActual == \A i \in 1..Len(fn.actual) : fn.actual[i] # RInt(0)

\* every error actual_i - predicted_i has the same magnitude
SameMagnitude ==
    \A i, j \in 1..Len(fn.actual) :
        RAbs(RSub(fn.actual[i], fn.predicted[i])) = RAbs(RSub(fn.actual[j], fn.predicted[j]))

\* C13: for equal-length non-empty arrays without a zero actual value
\* calculate_metrics returns MAE >= 0 and RMSE >= 0, and RMSE = MAE whenever
\* all the errors have the same magnitude.
C13_MetricsNonNegative ==
    MetricsReturned /\ NoZeroActual =>
        /\ Len(fn.actual) = Len(fn.predicted) /\ Len(fn.actual) > 0
        /\ RLe(RInt(0), fn.out.MAE)
        /\ RLe(RInt(0), fn.out.RMSE)
        /\ (SameMagnitude => fn.out.RMSE = fn.out.MAE)

C13_Witness ==
    /\ MetricsReturned
    /\ fn.actual = <<RInt(1), RInt(1)>>
    /\ fn.predicted = <<(<<7, 8>>), (<<9, 8>>)>>
    /\ fn.out.MAE = <<3, 25>>
    /\ fn.out.RMSE = <<3, 25>>

----------------------------------------------------------------------------
(* A close of 0 in the holdout.                                            *)

\* the library fit of the running call has returned a fitted model
FitReturned(op) ==
    \E k \in 1..Len(log) : log[k] = [op |-> op, asset |-> call.asset_name]

HasZero(s) == \E i \in 1..Len(s) : s[i] = RInt(0)

\* the actual array train_arima hands to calculate_metrics: the holdout
ArimaActual == Drop(Close(call.df), TrainSize(Len(Close(call.df))))

\* the actual array train_lstm hands to calculate_metrics: the targets of the
\* holdout windows, back in price units
LstmActual ==
    LET sc == FitScaler(Close(call.df))
    IN  InverseAll(sc, YTest(TransformAll(sc, Close(call.df)), call.lookback))

\* C14: when an actual value of the holdout handed to calculate_metrics is 0,
\* the MAPE is infinite or NaN and nothing guards it: a forecaster whose fit
\* succeeded does not fall back, it returns its genuine forecast, the fitted
\* model and metrics whose MAPE is that non-finite value.
C14_ZeroActualUnguarded ==
    /\ (Returned(arima) /\ FitReturned("arima_fitted") /\ HasZero(ArimaActual) =>
            /\ arima.path = "fit"
            /\ arima.model \in ArimaKinds
            /\ arima.forecast = ArimaForecast(arima.model, Close(call.df), call.forecast_steps)
            /\ arima.metrics.MAPE \in {PosInf, NaN})
    /\ (Returned(lstm) /\ FitReturned("lstm_fitted") /\ HasZero(LstmActual) =>
            /\ lstm.path = "fit"
            /\ lstm.model \in LstmKinds
            /\ AllFinite(lstm.forecast)
            /\ lstm.metrics.MAPE \in {PosInf, NaN})

C14_Witness ==
    /\ call.df = "zero"
    /\ arima.path = "fit"
    /\ arima.model = "rw"
    /\ arima.metrics.MAPE = PosInf
    /\ IsFinite(arima.metrics.MAE)
    /\ lstm.path = "fit"
    /\ IsFinite(lstm.metrics.MAPE)

----------------------------------------------------------------------------
(* The CSV export.                                                         *)

\* the rows of an exported CSV file
CsvRows == IF resp.kind = "csv" THEN resp.rows ELSE <<>>

\* the day count of a written date
RowDay(row) == DaysFromCivil(row.Date[1], row.Date[2], row.Date[3])

\* C15: the CSV export of a valid asset whose series ends on date D has exactly
\* 30 rows; row k carries the date D + k, so the dates run from D + 1 to D + 30,
\* strictly increasing and without a gap (2024-01-02 .. 2024-01-31 for
\* D = 2024-01-01), and the ARIMA and the LSTM forecast value of that day.
C15_CsvThirtyDays ==
    resp.kind = "csv" =>
        LET D == EndDate(call.df)
        IN  /\ call.asset_name \in Keys
            /\ Len(CsvRows) = 30
            /\ \A k \in 1..Len(CsvRows) :
                  /\ CsvRows[k].Date = CivilFromDays(D + k)
                  /\ RowDay(CsvRows[k]) = D + k
                  /\ CsvRows[k].ARIMA_Forecast = results.arima.forecast[k]
                  /\ CsvRows[k].LSTM_Forecast = results.lstm.forecast[k]
            /\ \A k \in 1..(Len(CsvRows) - 1) : RowDay(CsvRows[k + 1]) = RowDay(CsvRows[k]) + 1
            /\ (CivilFromDays(D) = <<2024, 1, 1>> =>
                  /\ CsvRows[1].Date = <<2024, 1, 2>>
                  /\ CsvRows[30].Date = <<2024, 1, 31>>)

C15_Witness ==
    /\ resp.kind = "csv"
    /\ call.df = "zero"
    /\ CsvRows[1].Date = <<2024, 2, 11>>
    /\ CsvRows[19].Date = <<2024, 2, 29>>
    /\ CsvRows[30].Date = <<2024, 3, 11>>
    /\ results.arima.path = "fit"
    /\ results.lstm.path = "fallback"

----------------------------------------------------------------------------
(* DataLoader.clean_data, called on the rows read from one CSV file.       *)

\* rows of a raw file: 0..MaxRows
MaxRows == 3

\* the Date texts of a raw file: two days, each in two spellings
DateTexts ==
    {[style |-> st, y |-> 2024, m |-> 1, d |-> d] : st \in {"2024-01-0d", "01/0d/2024"}, d \in 1..2}

\* the Close cells as read_csv delivers them: a number, or NaN for an empty cell
CloseCells == {RInt(1), RInt(2), NaN}

RawRows == [Date : DateTexts, Close : CloseCells]

RawFiles == UNION {[1..n -> RawRows] : n \in 0..MaxRows}

\* df.drop_duplicates(): a row equal in every column to an earlier one is dropped
drop_duplicates(rows) ==
    LET keep == {i \in 1..Len(rows) : \A j \in 1..(i - 1) : rows[j] # rows[i]}
        RECURSIVE Pick(_)
        Pick(i) == IF i > Len(rows) THEN <<>>
                   ELSE IF i \in keep THEN <<rows[i]>> \o Pick(i + 1) ELSE Pick(i + 1)
    IN  Pick(1)

\* pd.to_datetime of one text: the day it names, whatever its spelling
to_datetime(text) == DaysFromCivil(text.y, text.m, text.d)

\* a column whose texts are not all spelled alike makes pd.to_datetime raise in
\* the pandas versions that infer one format for the column
MixedSpellings(rows) == \E i, j \in 1..Len(rows) : rows[i].Date.style # rows[j].Date.style

\* df.sort_values("Date"): the orders of the rows that are sorted by date; the
\* default quicksort leaves the order of rows of the same date open
SortedOrders(rows) ==
    {p \in [1..Len(rows) -> 1..Len(rows)] :
        /\ \A i, j \in 1..Len(rows) : p[i] = p[j] => i = j
        /\ \A i \in 1..(Len(rows) - 1) : rows[p[i]].Date <= rows[p[i + 1]].Date}

\* df.ffill().bfill() of the Close column: an empty cell takes the value before
\* it, and the cells before the first value take that value
ffill_bfill(closes) ==
    LET has(i)  == ~IsNaN(closes[i])
        prev(i) == {j \in 1..i : has(j)}
        next(i) == {j \in i..Len(closes) : has(j)}
        Max(S)  == CHOOSE x \in S : \A y \in S : y <= x
        Min(S)  == CHOOSE x \in S : \A y \in S : x <= y
    IN  [i \in 1..Len(closes) |->
            IF prev(i) # {} THEN closes[Max(prev(i))]
            ELSE IF next(i) # {} THEN closes[Min(next(i))]
            ELSE NaN]

\* clean_data is about to be called on the rows of a file
InitL ==
    /\ AtRest
    /\ \E rows \in RawFiles :
          fn = [op |-> "clean_data", rows |-> rows, done |-> FALSE, raised |-> FALSE,
                out |-> <<>>]

\* lines 36-52 and 66: duplicates dropped, dates parsed, rows sorted, gaps
\* filled; the feature columns of lines 54-64 are not read by the forecasters
clean_data ==
    /\ fn.op = "clean_data"
    /\ ~fn.done
    /\ LET df == drop_duplicates(fn.rows)
       IN  \/ /\ MixedSpellings(df)
              /\ fn' = [fn EXCEPT !.done = TRUE, !.raised = TRUE]
           \/ \E p \in SortedOrders([i \in 1..Len(df) |->
                                        [Date |-> to_datetime(df[i].Date), Close |-> df[i].Close]]) :
                LET sorted == [i \in 1..Len(df) |->
                                 [Date |-> to_datetime(df[p[i]].Date), Close |-> df[p[i]].Close]]
                    filled == ffill_bfill([i \in 1..Len(df) |-> sorted[i].Close])
                IN  fn' = [fn EXCEPT !.done = TRUE,
                                     !.out = [i \in 1..Len(df) |->
                                                [Date |-> sorted[i].Date, Close |-> filled[i]]]]
    /\ UNCHANGED rest

NextL == clean_data

SpecL == InitL /\ [][NextL]_vars

\* the series clean_data has handed over
Cleaned == IF fn.op = "clean_data" /\ fn.done /\ ~fn.raised THEN fn.out ELSE <<>>

\* C16 as stated: every series clean_data hands over is strictly increasing by
\* date and has no date twice, whatever the raw rows, rows that share a date
\* and differ in another column included.
C16_StrictlyIncreasingDates ==
    \A i, j \in 1..Len(Cleaned) : i < j => Cleaned[i].Date < Cleaned[j].Date

----------------------------------------------------------------------------
(* Missing libraries.                                                      *)

\* the naive forecast: the line from the last close to 1.05 times the last close
IsNaiveLine(r) ==
    /\ r.path = "fallback"
    /\ r.forecast = FallbackForecast(Close(call.df), call.forecast_steps)
    /\ IsFallbackTuple(r)

\* train_arima / train_lstm of the running call has been entered
Entered(op) == \E k \in 1..Len(log) : log[k] = [op |-> op, asset |-> call.asset_name]

\* C17 as stated: with statsmodels missing train_arima returns the naive line
\* with zero metrics, with TensorFlow missing train_lstm does, and with any of
\* the three libraries missing no exception leaves train_arima, train_lstm or
\* train_and_forecast.
C17_MissingLibraryDegrades ==
    /\ (~HAS_ARIMA /\ Entered("train_arima") => pc # "raised" /\ IsNaiveLine(arima))
    /\ (~HAS_LSTM /\ Entered("train_lstm") => pc # "raised" /\ IsNaiveLine(lstm))
    /\ (~HAS_ARIMA \/ ~HAS_AUTO_ARIMA \/ ~HAS_LSTM => pc # "raised")

----------------------------------------------------------------------------
(* The window of the roll-forward loop.                                    *)

\* C18: the window of the roll-forward loop is a sliding window of fixed size:
\* before and after every pass it holds exactly lookback values, the last
\* lookback values of the scaled observations followed by the predictions made
\* so far (after k <= lookback passes: the last lookback - k observations, then
\* predictions 1..k in order), and the loop ends after exactly forecast_steps
\* passes.
C18_SlidingWindow ==
    /\ (pc = "lstm_loop" =>
            LET k == Len(work.forecast)
            IN  /\ Len(work.last_sequence) = call.lookback
                /\ k <= call.forecast_steps
                /\ work.last_sequence = LastN(SeedWindow \o work.forecast, call.lookback)
                /\ (k <= call.lookback =>
                        work.last_sequence = Drop(SeedWindow, k) \o work.forecast)
                /\ (k >= 1 => work.last_sequence[call.lookback] = work.forecast[k]))
    /\ (lstm.path = "fit" => Len(lstm.forecast) = call.forecast_steps)

C18_Witness ==
    /\ pc = "lstm_loop"
    /\ call.df = "sixteen"
    /\ call.lookback = 2
    /\ call.forecast_steps = 3
    /\ work.model = "first"
    /\ Len(work.forecast) = 1
    /\ work.last_sequence = <<SeedWindow[2], work.forecast[1]>>
    /\ SeedWindow[1] # SeedWindow[2]

----------------------------------------------------------------------------
(* The holdout and the ARIMA order.                                        *)

\* C19: the holdout, the closes at index >= floor(0.8 * n), takes no part in the
\* choice of the ARIMA order: the order search is handed exactly the first
\* floor(0.8 * n) closes and the order is what the search makes of them; without
\* the search the order is (5, 1, 0) for every asset; the holdout reaches only
\* the final fit, which is on the whole series, and the metrics.
C19_HoldoutNotInOrderSearch ==
    HAS_ARIMA /\ Entered("train_arima") /\ pc # "train_arima" =>
        LET data       == Close(call.df)
            train_size == TrainSize(Len(data))
        IN  /\ arima_locals.searched = HAS_AUTO_ARIMA
            /\ (arima_locals.searched =>
                    /\ Len(arima_locals.search_input) = train_size
                    /\ \A i \in 1..train_size : arima_locals.search_input[i] = data[i]
                    /\ (arima_locals.fitted =>
                            arima_locals.order = AutoArimaOrder(SubSeq(data, 1, train_size))))
            /\ (~arima_locals.searched => arima_locals.order = <<5, 1, 0>>)
            /\ (arima_locals.fitted =>
                    /\ arima_locals.fit_input = data
                    /\ arima_locals.test_data = SubSeq(data, train_size + 1, Len(data))
                    /\ arima.path = "fit")

C19_Witness ==
    /\ call.df = "sixteen"
    /\ arima.path = "fit"
    /\ arima_locals.searched
    /\ Len(arima_locals.search_input) = 12
    /\ arima_locals.order = <<1, 1, 1>>
    /\ arima_locals.fit_input[13] = RInt(6)

----------------------------------------------------------------------------
(* The holdout and the training examples of train_lstm.                    *)

\* C20 as stated: every training example of train_lstm is made of the train
\* split alone: its lookback inputs and its target all lie at positions below
\* floor(0.8 * n) of the series.
C20_TrainingFromTrainSplitOnly ==
    pc = "lstm_loop" =>
        LET train_size == TrainSize(Len(Close(call.df)))
        IN  \A k \in 1..Len(work.train_examples) :
                /\ work.train_examples[k].target < train_size
                /\ \A t \in 1..call.lookback : work.train_examples[k].inputs[t] < train_size

----------------------------------------------------------------------------
(* The holdout and the evaluation examples of train_lstm.                  *)

\* the holdout of the running call is no longer than its lookback
ShortHoldout ==
    LET n == Len(Close(call.df))
    IN  n - TrainSize(n) <= call.lookback

\* C21 as stated: train_lstm evaluates on windows of the holdout slice alone,
\* which gives (holdout length - lookback) evaluation examples; it gets past
\* the fit only if n - floor(0.8 * n) > lookback, and on every shorter series
\* it returns the fallback line with all-zero metrics and no model.
C21_ShortHoldoutFallsBack ==
    /\ (pc = "lstm_loop" =>
            LET n          == Len(Close(call.df))
                train_size == TrainSize(n)
            IN  /\ ~ShortHoldout
                /\ Len(work.test_examples) = (n - train_size) - call.lookback
                /\ \A k \in 1..Len(work.test_examples) :
                      /\ work.test_examples[k].target \in train_size..(n - 1)
                      /\ \A t \in 1..call.lookback :
                            work.test_examples[k].inputs[t] \in train_size..(n - 1))
    /\ (Entered("train_lstm") /\ ShortHoldout => IsNaiveLine(lstm))

----------------------------------------------------------------------------
(* The shared scaler in calls that follow one another.                     *)

\* the min/max of the series of the running call, and the series scaled by them
OwnFit == FitScaler(Close(call.df))

OwnScaled == TransformAll(OwnFit, Close(call.df))

\* what train_lstm makes of the series of the running call with fitted model
\* kind, when the scaler holds the series' own min/max
OwnForecast(kind) ==
    InverseAll(OwnFit, RollForward(kind, LastN(OwnScaled, call.lookback), <<>>,
                                   call.forecast_steps))

OwnMetrics(kind) == LstmMetrics(OwnFit, kind, OwnScaled, call.lookback)

\* C22: when calls follow one another on one ModelTrainer, each train_lstm
\* call that gets to use the scaler has refitted it on its own series: in the
\* loop the scaler holds the min/max of the call's own series, and the window,
\* the metrics and the forecast returned are the ones computed with them,
\* whatever parameters an earlier call left in the scaler.
C22_SequentialScalerRefit ==
    /\ (pc = "lstm_loop" =>
            /\ scaler = OwnFit
            /\ work.metrics = OwnMetrics(work.model)
            /\ work.last_sequence = LastN(OwnScaled \o work.forecast, call.lookback)
            /\ work.forecast = RollForward(work.model, LastN(OwnScaled, call.lookback), <<>>,
                                           Len(work.forecast)))
    /\ (Entered("lstm_fitted") /\ pc # "lstm_loop" =>
            /\ lstm.path = "fit"
            /\ lstm.metrics = OwnMetrics(lstm.model)
            /\ lstm.forecast = OwnForecast(lstm.model))

\* the second asset of a batch returns from train_lstm after the first asset's
\* call fitted the scaler on another series with another min/max
C22_Witness ==
    /\ ctx = "batch"
    /\ Len(all_data) = 2
    /\ all_data[1].df = "zero"
    /\ call.df = "sixteen"
    /\ call.asset_name = all_data[2].name
    /\ \E k \in 1..Len(log) : log[k] = [op |-> "lstm_fitted", asset |-> all_data[1].name]
    /\ Entered("lstm_fitted")
    /\ lstm.path = "fit"
    /\ lstm.forecast = OwnForecast(lstm.model)
    /\ FitScaler(Close("zero")) # OwnFit
    /\ scaler = OwnFit

====
